---- MODULE Spec2Model ----
(***************************************************************************)
(* Model of src/app.py: the Streamlit page "Capture Platform".             *)
(*                                                                         *)
(* The page is a script that Streamlit runs from top to bottom on every    *)
(* user event.  The state that survives a run is the widget state (input   *)
(* mode, typed name, dropdown choice, uploaded file) and                   *)
(* st.session_state.processing_result.  A run that was started by the      *)
(* Submit button and passes the checks of lines 98-106 sleeps, issues one  *)
(* blocking POST and handles its outcome.                                  *)
(*                                                                         *)
(* Python strings that the code inspects character by character (customer  *)
(* names, file names) are sequences of one-character strings.  Parsed JSON *)
(* values are records of one shape, tagged by t.                           *)
(***************************************************************************)
EXTENDS Integers, Sequences, FiniteSets, TLC

\* ------------------------------------------------------------------------
\* Python strings as character sequences
\* ------------------------------------------------------------------------

voorbeelden == <<"v","o","o","r","b","e","e","l","d","e","n">>
allseas     == <<"a","l","l","s","e","a","s">>
visdeal     == <<"v","i","s","d","e","a","l">>
berencourt  == <<"b","e","r","e","n","c","o","u","r","t">>

\* CUSTOMER_NAMES, a list: the selectbox shows it in this order.
CUSTOMER_NAMES == << voorbeelden, allseas, visdeal, berencourt >>

\* x in CUSTOMER_NAMES
InCustomerNames(x) == \E i \in DOMAIN CUSTOMER_NAMES : CUSTOMER_NAMES[i] = x

Whitespace == { " ", "\t", "\n", "\r" }

RECURSIVE LStrip(_)
LStrip(s) == IF s # <<>> /\ Head(s) \in Whitespace THEN LStrip(Tail(s)) ELSE s

RECURSIVE RStrip(_)
RStrip(s) ==
    IF s # <<>> /\ s[Len(s)] \in Whitespace THEN RStrip(SubSeq(s, 1, Len(s) - 1)) ELSE s

\* str.strip()
Strip(s) == RStrip(LStrip(s))

\* str.replace(old, ""): every non-overlapping occurrence, left to right.
RECURSIVE Remove(_, _)
Remove(s, old) ==
    IF Len(s) < Len(old) THEN s
    ELSE IF SubSeq(s, 1, Len(old)) = old
         THEN Remove(SubSeq(s, Len(old) + 1, Len(s)), old)
         ELSE <<Head(s)>> \o Remove(Tail(s), old)

DotPdf == <<".","p","d","f">>
ExtractedJsonSuffix == <<"_","e","x","t","r","a","c","t","e","d",".","j","s","o","n">>
ExtractedPrefix == <<"e","x","t","r","a","c","t","e","d","_">>
DotJson == <<".","j","s","o","n">>

\* ------------------------------------------------------------------------
\* Parsed JSON (the value of response.json())
\* ------------------------------------------------------------------------

JValue(tag, b, n, s, keys, items) ==
    [t |-> tag, b |-> b, n |-> n, s |-> s, keys |-> keys, items |-> items]

\* Python None, which is also what JSON null parses to.
None == JValue("null", FALSE, 0, "", <<>>, <<>>)
JBool(b) == JValue("bool", b, 0, "", <<>>, <<>>)
JNum(n) == JValue("num", FALSE, n, "", <<>>, <<>>)
JStr(s) == JValue("str", FALSE, 0, s, <<>>, <<>>)
JList(items) == JValue("list", FALSE, 0, "", <<>>, items)
\* A dict: keys[i] maps to items[i], in insertion order.
JDict(keys, items) == JValue("dict", FALSE, 0, "", keys, items)
EmptyDict == JDict(<<>>, <<>>)

\* The key is not in st.session_state.
Missing == JValue("missing", FALSE, 0, "", <<>>, <<>>)
\* Marks an expression that raised AttributeError.
AttributeError == JValue("AttributeError", FALSE, 0, "", <<>>, <<>>)

\* Python truth value of a parsed JSON value.
Truthy(v) ==
    CASE v.t = "null" -> FALSE
      [] v.t = "bool" -> v.b
      [] v.t = "num"  -> v.n # 0
      [] v.t = "str"  -> v.s # ""
      [] v.t = "list" -> Len(v.items) > 0
      [] v.t = "dict" -> Len(v.items) > 0
      [] OTHER        -> FALSE

HasKey(d, key) == \E i \in DOMAIN d.keys : d.keys[i] = key

\* d.get(key, default); only a dict has .get.
DictGet(d, key, default) ==
    IF d.t # "dict" THEN AttributeError
    ELSE IF HasKey(d, key)
         THEN d.items[CHOOSE i \in DOMAIN d.keys : d.keys[i] = key]
         ELSE default

\* result.get("data", {}).get("extracted_data", {}).get("gpt_extraction_output")
GptJson(result) ==
    LET data == DictGet(result, "data", EmptyDict)
        extracted == IF data = AttributeError THEN AttributeError
                     ELSE DictGet(data, "extracted_data", EmptyDict)
    IN  IF extracted = AttributeError THEN AttributeError
        ELSE DictGet(extracted, "gpt_extraction_output", None)

Digit == <<"0","1","2","3","4","5","6","7","8","9">>

RECURSIVE NatStr(_)
NatStr(n) == IF n < 10 THEN Digit[n + 1] ELSE NatStr(n \div 10) \o Digit[(n % 10) + 1]

IntStr(n) == IF n < 0 THEN "-" \o NatStr(-n) ELSE NatStr(n)

INDENT == 2

RECURSIVE Spaces(_)
Spaces(n) == IF n = 0 THEN "" ELSE " " \o Spaces(n - 1)

\* json.dumps(v, indent=INDENT), at nesting depth `level`.
RECURSIVE Dumps(_, _)
RECURSIVE DumpsItems(_, _, _)
DumpsItems(v, i, level) ==
    LET key == IF v.t = "dict" THEN "\"" \o v.keys[i] \o "\": " ELSE ""
        item == Spaces(INDENT * (level + 1)) \o key \o Dumps(v.items[i], level + 1)
    IN  IF i = Len(v.items) THEN item
        ELSE item \o ",\n" \o DumpsItems(v, i + 1, level)

Dumps(v, level) ==
    CASE v.t = "null" -> "null"
      [] v.t = "bool" -> IF v.b THEN "true" ELSE "false"
      [] v.t = "num"  -> IntStr(v.n)
      [] v.t = "str"  -> "\"" \o v.s \o "\""
      [] v.t = "list" ->
            IF v.items = <<>> THEN "[]"
            ELSE "[\n" \o DumpsItems(v, 1, level) \o "\n" \o Spaces(INDENT * level) \o "]"
      [] v.t = "dict" ->
            IF v.items = <<>> THEN "{}"
            ELSE "{\n" \o DumpsItems(v, 1, level) \o "\n" \o Spaces(INDENT * level) \o "}"

\* ------------------------------------------------------------------------
\* Constants of the page and the inputs explored
\* ------------------------------------------------------------------------

API_BASE_URL == "https://ride-popularity-wrestling-uncle.trycloudflare.com/api"
PROCESSING_ENDPOINT == "/process/OcrBytes"
SLEEP_SECONDS == 5

SelectFromDropdown == "Select from Dropdown"
EnterCustomerName == "Enter Customer Name"
InputMethods == { SelectFromDropdown, EnterCustomerName }

acme == <<"a","c","m","e">>
\* What the user types into the text input.
ManualTexts == { <<>>, <<" ">>, acme, allseas }

UploadedFile(name, bytes) == [present |-> TRUE, name |-> name, bytes |-> bytes]
\* uploaded_file is None
NoFile == [present |-> FALSE, name |-> <<>>, bytes |-> <<>>]
\* One file of each type the uploader accepts.
Files == { UploadedFile(<<"a",".","p","d","f">>, <<37, 80>>),
           UploadedFile(<<"s",".","p","n","g">>, <<137, 80>>),
           UploadedFile(<<"p",".","j","p","g">>, <<255, 216>>),
           UploadedFile(<<"q",".","j","p","e","g">>, <<255, 217>>) }

Wrap(gpt) == JDict(<<"data">>, <<JDict(<<"extracted_data">>,
                 <<JDict(<<"gpt_extraction_output">>, <<gpt>>)>>)>>)

\* Values found at data.extracted_data.gpt_extraction_output.
GptValues == { JDict(<<"a">>, <<JNum(1)>>), EmptyDict, JList(<<>>), JList(<<JStr("x")>>),
               JStr(""), JStr("x"), JNum(0), JNum(7), JBool(FALSE), JBool(TRUE), None }

\* Bodies without the path, and bodies that are not an object.
OtherBodies == { EmptyDict,
                 JDict(<<"status">>, <<JStr("ok")>>),
                 JDict(<<"data">>, <<EmptyDict>>),
                 JDict(<<"data">>, <<JDict(<<"extracted_data">>, <<EmptyDict>>)>>),
                 JDict(<<"data">>, <<None>>),
                 JDict(<<"data">>, <<JDict(<<"extracted_data">>, <<JList(<<JNum(1)>>)>>)>>),
                 None, JList(<<>>), JList(<<JNum(1)>>), JStr("ok"), JNum(0) }

\* The parsed bodies of a 2xx response.
Bodies == { Wrap(g) : g \in GptValues } \cup OtherBodies

\* What requests.post, raise_for_status and response.json can raise, by class.
RequestExceptions == { "ConnectionError", "HTTPError", "JSONDecodeError" }
OtherExceptions == { "ValueError" }

\* ------------------------------------------------------------------------
\* State
\* ------------------------------------------------------------------------

VARIABLES
    customer_input_method,   \* st.radio, key customer_input_method
    manual_customer_name,    \* st.text_input, key manual_customer_name
    dropdown_customer_name,  \* st.selectbox, key dropdown_customer_name
    uploaded_file,           \* st.file_uploader
    processing_result,       \* st.session_state.processing_result
    pc,                      \* "load", "idle", "sleeping", "posting", "rerun"
    button,                  \* st.button("Submit") of the current (last) run
    slept,                   \* seconds of time.sleep(5) elapsed
    posts,                   \* POST requests issued by the current (last) run
    response,                \* what the POST of the current (last) run came to
    failed_before,           \* history: a POST of this session has raised
    request,                 \* the last POST request issued
    notice,                  \* st.error / st.success shown by the current (last) run
    view                     \* the result section shown by the current (last) run

widgets == << customer_input_method, manual_customer_name, dropdown_customer_name,
              uploaded_file >>
vars == << customer_input_method, manual_customer_name, dropdown_customer_name,
           uploaded_file, processing_result, pc, button, slept, posts, response,
           failed_before, request, notice, view >>

\* No POST has returned or raised in this run.
NoResponse == [status |-> "none", body |-> None, exc |-> ""]

NoRequest == [url |-> "", file |-> NoFile, customer_name |-> <<>>, accept |-> ""]

InvalidCustomer == "Invalid customer name"
NameRequired == "Please enter/select a Customer Name."
FileRequired == "Please upload a file to process."
ApiFailed == "API request failed"
UnexpectedError == "An unexpected error occurred"
Success == "processed successfully"

\* Nothing of the result section is shown.
NoView == [hr |-> FALSE, extracted |-> FALSE, code |-> "", download_data |-> "",
           file_name |-> <<>>, warning |-> FALSE, summary |-> FALSE, json |-> None,
           exception |-> ""]

\* ------------------------------------------------------------------------
\* The script
\* ------------------------------------------------------------------------

\* customer_name as lines 67-81 compute it.
CustomerName(method, manual, dropdown) ==
    IF method = EnterCustomerName THEN manual ELSE dropdown

\* Line 83 without its check: any typed name goes through.
InvalidCustomerName_Unchecked(customer_name) == FALSE

\* The condition of line 83.
InvalidCustomerName(customer_name) ==
    customer_name # <<>> /\ ~InCustomerNames(customer_name)

\* The condition of line 98.
NameMissing(customer_name) == Strip(customer_name) = <<>>

\* Line 103 without its check: a submission without a file goes through.
FileMissing_Unchecked(file) == FALSE

\* The condition of line 103.
FileMissing(file) == ~file.present

\* The file_name argument of st.download_button, line 154.
DownloadFileName(file, customer_name) ==
    IF file.present
    THEN Remove(file.name, DotPdf) \o <<"_">> \o customer_name \o ExtractedJsonSuffix
    ELSE ExtractedPrefix \o customer_name \o DotJson

\* Lines 141-161: the result section.
Render(result, customer_name, file) ==
    IF ~Truthy(result) THEN NoView
    ELSE LET gpt_json == GptJson(result)
         IN  IF gpt_json = AttributeError
             THEN [NoView EXCEPT !.exception = "AttributeError"]
             ELSE [hr |-> TRUE,
                   extracted |-> Truthy(gpt_json),
                   code |-> IF Truthy(gpt_json) THEN Dumps(gpt_json, 0) ELSE "",
                   download_data |-> IF Truthy(gpt_json) THEN Dumps(gpt_json, 0) ELSE "",
                   file_name |-> IF Truthy(gpt_json)
                                 THEN DownloadFileName(file, customer_name) ELSE <<>>,
                   warning |-> ~Truthy(gpt_json),
                   summary |-> TRUE,
                   json |-> result,
                   exception |-> ""]

\* Lines 92-93 without the guard: every run resets the result.
Initialised_Unguarded(result) == None

\* Lines 92-93: the value of the session key once it is initialised.
Initialised(result) == IF result = Missing THEN None ELSE result

\* Line 119 left out: the earlier result stays stored during the POST.
ClearedBeforePost_Kept(result) == Initialised(result)

\* Line 119: the result is cleared before the spinner, the sleep and the POST.
ClearedBeforePost(result) == None

\* The arguments of requests.post, lines 108-117 and 124.
PostRequest(file, customer_name) ==
    [url |-> API_BASE_URL \o PROCESSING_ENDPOINT, file |-> file,
     customer_name |-> customer_name, accept |-> "application/json"]

\* One run of process_files_tab up to its end or to time.sleep, with the widget
\* values of this run; clicked is the value of st.button("Submit").
Script(method, manual, dropdown, file, clicked) ==
    LET customer_name == CustomerName(method, manual, dropdown)
    IN  /\ button' = clicked
        /\ posts' = 0
        /\ slept' = 0
        /\ response' = NoResponse
        /\ request' = request
        /\ failed_before' = failed_before
        /\ IF InvalidCustomerName(customer_name)
           THEN /\ notice' = InvalidCustomer
                /\ processing_result' = processing_result
                /\ view' = NoView
                /\ pc' = "idle"
           ELSE IF clicked /\ NameMissing(customer_name)
           THEN /\ notice' = NameRequired
                /\ processing_result' = None
                /\ view' = NoView
                /\ pc' = "idle"
           ELSE IF clicked /\ FileMissing(file)
           THEN /\ notice' = FileRequired
                /\ processing_result' = None
                /\ view' = NoView
                /\ pc' = "idle"
           ELSE IF clicked
           THEN /\ notice' = ""
                /\ processing_result' = ClearedBeforePost(processing_result)
                /\ view' = NoView
                /\ pc' = "sleeping"
           ELSE /\ notice' = ""
                /\ processing_result' = Initialised(processing_result)
                /\ view' = Render(Initialised(processing_result), customer_name, file)
                /\ pc' = "idle"

\* Streamlit may drop the value of a widget that a run does not show.
Unshown(value, default) == { value, default }

\* The script got as far as the uploader and the Submit button.
FormShown ==
    ~InvalidCustomerName(CustomerName(customer_input_method, manual_customer_name,
                                      dropdown_customer_name))

\* The widget values after a run with the given values.
Widgets(method, manual, dropdown, file) ==
    /\ customer_input_method' = method
    /\ manual_customer_name' \in
          IF method = EnterCustomerName THEN {manual} ELSE Unshown(manual, <<>>)
    /\ dropdown_customer_name' \in
          IF method = SelectFromDropdown THEN {dropdown}
          ELSE Unshown(dropdown, CUSTOMER_NAMES[1])
    /\ uploaded_file' \in
          IF InvalidCustomerName(CustomerName(method, manual, dropdown))
          THEN Unshown(file, NoFile) ELSE {file}

Init ==
    /\ customer_input_method = SelectFromDropdown
    /\ manual_customer_name = <<>>
    /\ dropdown_customer_name = CUSTOMER_NAMES[1]
    /\ uploaded_file = NoFile
    /\ processing_result = Missing
    /\ pc = "load"
    /\ button = FALSE
    /\ slept = 0
    /\ posts = 0
    /\ response = NoResponse
    /\ failed_before = FALSE
    /\ request = NoRequest
    /\ notice = ""
    /\ view = NoView

\* The first run, when the page is opened.
PageLoad ==
    /\ pc = "load"
    /\ Widgets(customer_input_method, manual_customer_name, dropdown_customer_name,
               uploaded_file)
    /\ Script(customer_input_method, manual_customer_name, dropdown_customer_name,
              uploaded_file, FALSE)

\* The user picks the other input method.
ChooseMethod(m) ==
    /\ pc = "idle"
    /\ m # customer_input_method
    /\ Widgets(m, manual_customer_name, dropdown_customer_name, uploaded_file)
    /\ Script(m, manual_customer_name, dropdown_customer_name, uploaded_file, FALSE)

\* The user types a customer name and leaves the field.
TypeName(s) ==
    /\ pc = "idle"
    /\ customer_input_method = EnterCustomerName
    /\ s # manual_customer_name
    /\ Widgets(customer_input_method, s, dropdown_customer_name, uploaded_file)
    /\ Script(customer_input_method, s, dropdown_customer_name, uploaded_file, FALSE)

\* The user picks a customer name from the dropdown.
SelectName(c) ==
    /\ pc = "idle"
    /\ customer_input_method = SelectFromDropdown
    /\ c # dropdown_customer_name
    /\ Widgets(customer_input_method, manual_customer_name, c, uploaded_file)
    /\ Script(customer_input_method, manual_customer_name, c, uploaded_file, FALSE)

\* The user attaches, replaces or removes the file.
ChangeFile(f) ==
    /\ pc = "idle"
    /\ FormShown
    /\ f # uploaded_file
    /\ Widgets(customer_input_method, manual_customer_name, dropdown_customer_name, f)
    /\ Script(customer_input_method, manual_customer_name, dropdown_customer_name, f,
              FALSE)

\* The user clicks Submit; a name still being typed is committed by the click.
ClickSubmit(s) ==
    /\ pc = "idle"
    /\ FormShown
    /\ customer_input_method = SelectFromDropdown => s = manual_customer_name
    /\ Widgets(customer_input_method, s, dropdown_customer_name, uploaded_file)
    /\ Script(customer_input_method, s, dropdown_customer_name, uploaded_file, TRUE)

\* One second of time.sleep(5) inside the spinner.
Sleep ==
    /\ pc = "sleeping"
    /\ slept < SLEEP_SECONDS
    /\ slept' = slept + 1
    /\ UNCHANGED << widgets, processing_result, pc, button, posts, response,
                    failed_before, request, notice, view >>

\* requests.post is called, line 124.
IssuePost ==
    /\ pc = "sleeping"
    /\ slept = SLEEP_SECONDS
    /\ pc' = "posting"
    /\ posts' = posts + 1
    /\ request' = PostRequest(uploaded_file,
                     CustomerName(customer_input_method, manual_customer_name,
                                  dropdown_customer_name))
    /\ UNCHANGED << widgets, processing_result, button, slept, response,
                    failed_before, notice, view >>

\* The except clause of lines 134-139 that catches exc.  st.rerun() raises
\* RerunException, which derives from BaseException and passes both clauses.
ExceptClause(exc) ==
    IF exc \in RequestExceptions THEN "RequestException"
    ELSE IF exc = "RerunException" THEN "uncaught"
    ELSE "Exception"

\* The clauses swallow the exception without an st.error.
HandlerNotice_Silent(exc) == ""

\* The st.error of the clause that catches exc.
HandlerNotice(exc) ==
    IF ExceptClause(exc) = "RequestException" THEN ApiFailed ELSE UnexpectedError

\* Lines 134-141: exc was caught; the clause shows the error and clears the
\* result, and the run goes on to the result section.
Caught(exc) ==
    /\ processing_result' = None
    /\ notice' = HandlerNotice(exc)
    /\ view' = Render(None,
                      CustomerName(customer_input_method, manual_customer_name,
                                   dropdown_customer_name), uploaded_file)
    /\ pc' = "idle"

\* Lines 125-132: a 2xx response whose body parses is stored, and st.rerun()
\* ends the run.
PostSucceeds(body) ==
    /\ pc = "posting"
    /\ response' = [status |-> "ok", body |-> body, exc |-> ""]
    /\ IF ExceptClause("RerunException") = "uncaught"
       THEN /\ processing_result' = body
            /\ notice' = Success
            /\ view' = NoView
            /\ pc' = "rerun"
       ELSE Caught("RerunException")
    /\ UNCHANGED << widgets, button, slept, posts, failed_before, request >>

\* Lines 124-126 raise: a network error, a non-2xx status, a body that does
\* not parse.
PostRaises(exc) ==
    /\ pc = "posting"
    /\ response' = [status |-> "raised", body |-> None, exc |-> exc]
    /\ failed_before' = TRUE
    /\ Caught(exc)
    /\ UNCHANGED << widgets, button, slept, posts, request >>

\* The run that st.rerun() asked for.
Rerun ==
    /\ pc = "rerun"
    /\ Widgets(customer_input_method, manual_customer_name, dropdown_customer_name,
               uploaded_file)
    /\ Script(customer_input_method, manual_customer_name, dropdown_customer_name,
              uploaded_file, FALSE)

Next ==
    \/ PageLoad
    \/ \E m \in InputMethods : ChooseMethod(m)
    \/ \E s \in ManualTexts : TypeName(s)
    \/ \E i \in DOMAIN CUSTOMER_NAMES : SelectName(CUSTOMER_NAMES[i])
    \/ \E f \in Files \cup {NoFile} : ChangeFile(f)
    \/ \E s \in ManualTexts : ClickSubmit(s)
    \/ Sleep
    \/ IssuePost
    \/ \E body \in Bodies : PostSucceeds(body)
    \/ \E exc \in RequestExceptions \cup OtherExceptions : PostRaises(exc)
    \/ Rerun

Spec == Init /\ [][Next]_vars

\* ------------------------------------------------------------------------
\* Properties
\* ------------------------------------------------------------------------

\* customer_name of the current (last) run.
customer_name ==
    CustomerName(customer_input_method, manual_customer_name, dropdown_customer_name)

FailureNotices == { ApiFailed, UnexpectedError }

\* The stored ProcessingResult: absent (None) while the key is not set.
Stored(result) == IF result.t = "missing" THEN None ELSE result

\* The run reached the result section (line 141) and has ended.
SectionReached ==
    /\ pc = "idle"
    /\ FormShown
    /\ notice \notin { NameRequired, FileRequired }

\* result is a JSON object that holds data.extracted_data.gpt_extraction_output.
HasPath(result) ==
    /\ result.t = "dict" /\ HasKey(result, "data")
    /\ DictGet(result, "data", None).t = "dict"
    /\ HasKey(DictGet(result, "data", None), "extracted_data")
    /\ DictGet(DictGet(result, "data", None), "extracted_data", None).t = "dict"
    /\ HasKey(DictGet(DictGet(result, "data", None), "extracted_data", None),
              "gpt_extraction_output")

\* The value at the path of a result that has it.
PathValue(result) ==
    DictGet(DictGet(DictGet(result, "data", None), "extracted_data", None),
            "gpt_extraction_output", None)

\* A JSON object at every level that is there, without the path.
LacksPath(result) ==
    /\ result.t = "dict"
    /\ ~HasPath(result)
    /\ GptJson(result) # AttributeError

\* C1: a run started by Submit with a customer name that is not in the
\* allow-list (empty and blank names included), in either input mode, with or
\* without a file, ends blocked with an error and issues no POST.
C1_UnlistedNameBlocked ==
    (button /\ ~InCustomerNames(customer_name)) =>
        /\ pc = "idle"
        /\ posts = 0
        /\ response = NoResponse
        /\ notice \in { InvalidCustomer, NameRequired }

\* C1 happens: Submit was clicked with the typed name "acme" and a file attached.
C1_Witness ==
    /\ button
    /\ customer_name = acme
    /\ uploaded_file.present
    /\ notice = InvalidCustomer

\* C2: a run started by Submit with a listed customer name and no file shows
\* the file-required error, ends there and issues no POST.
C2_NoFileBlocked ==
    (button /\ InCustomerNames(customer_name) /\ ~uploaded_file.present) =>
        /\ notice = FileRequired
        /\ pc = "idle"
        /\ posts = 0
        /\ response = NoResponse
        /\ processing_result = None

\* C2 happens: Submit was clicked with the typed name "allseas" and no file.
C2_Witness ==
    /\ button
    /\ customer_input_method = EnterCustomerName
    /\ customer_name = allseas
    /\ ~uploaded_file.present
    /\ notice = FileRequired

\* C3: once the POST of a submission has raised, the stored result is absent,
\* an error notice is shown, no rerun is pending, and the form still takes a
\* submission: Submit is enabled with the inputs unchanged, and a submission
\* made after a failure is not blocked and stores the body it gets.
C3_FailureClearsNoLockout ==
    /\ response.status = "raised" =>
          /\ processing_result = None
          /\ notice \in FailureNotices
          /\ view = NoView
          /\ pc = "idle"
          /\ posts = 1
          /\ ENABLED ClickSubmit(manual_customer_name)
    /\ (failed_before /\ button /\ InCustomerNames(customer_name)
            /\ uploaded_file.present) =>
          /\ notice \notin { InvalidCustomer, NameRequired, FileRequired }
          /\ (pc = "rerun" => processing_result = response.body)

\* C3 happens: after a failed POST a later submission got a body and stored it.
C3_Witness ==
    /\ failed_before
    /\ pc = "rerun"
    /\ response.status = "ok"
    /\ Truthy(processing_result)
    /\ processing_result = response.body

\* C4: after a 2xx response whose body is a JSON object the stored result is
\* that body, the handlers have not cleared it, and the run that the rerun
\* starts shows the result section from it.
C4_SuccessStoredAndRendered ==
    [][(pc = "rerun" /\ response.body.t = "dict") =>
          /\ response.status = "ok"
          /\ processing_result = response.body
          /\ processing_result' = processing_result
          /\ view'.summary
          /\ view'.json = processing_result]_vars

\* C5: for a successful response that is an object without the path
\* data.extracted_data.gpt_extraction_output, the run that follows shows the
\* not-found warning and the full raw response.
C5_MissingPathWarned ==
    [][(pc = "rerun" /\ LacksPath(processing_result)) =>
          /\ view'.warning
          /\ ~view'.extracted
          /\ view'.summary
          /\ view'.json = processing_result]_vars

\* C6: a run in which Submit was not clicked leaves the stored result as it
\* was and issues no POST, also when it stops at the invalid-name error.
C6_RerenderIsIdempotent ==
    [][(pc \in { "load", "idle", "rerun" } /\ ~button') =>
          /\ Stored(processing_result') = Stored(processing_result)
          /\ posts' = 0
          /\ response' = NoResponse
          /\ request' = request
          /\ pc' = "idle"]_vars

\* C6 happens: a run without Submit stopped at the invalid-name error while a
\* result was stored.
C6_Witness ==
    /\ ~button
    /\ pc = "idle"
    /\ notice = InvalidCustomer
    /\ Truthy(processing_result)

\* C7: a submission that passes the checks issues exactly one POST, and the
\* stored result is already cleared while the run sleeps and while the POST is
\* in flight.
C7_OnePostResultCleared ==
    /\ posts <= 1
    /\ pc \in { "sleeping", "posting" } => (button /\ processing_result = None)
    /\ pc = "sleeping" => posts = 0
    /\ pc = "posting" =>
          /\ posts = 1
          /\ request = PostRequest(uploaded_file, customer_name)
    /\ (button /\ pc \in { "idle", "rerun" } /\ InCustomerNames(customer_name)
            /\ uploaded_file.present) =>
          (posts = 1 /\ response.status \in { "ok", "raised" })

\* C7 happens: the POST of a second submission is in flight.
C7_Witness ==
    /\ pc = "posting"
    /\ posts = 1
    /\ failed_before
    /\ processing_result = None

\* C8: when a result with the path is stored, whatever the value at the path,
\* the result section shows the pretty-printed value and offers the same text
\* for download; the warning is shown only when the path is absent.
C8_PresentValueShown ==
    (SectionReached /\ processing_result.t = "dict") =>
        /\ HasPath(processing_result) =>
              /\ view.extracted
              /\ view.code = Dumps(PathValue(processing_result), 0)
              /\ view.download_data = view.code
        /\ view.warning => ~HasPath(processing_result)

\* os.path.splitext(name)[0]: the name without its extension.
RECURSIVE BaseName(_)
BaseName(name) ==
    IF name = <<>> THEN <<>>
    ELSE IF name[Len(name)] = "." THEN SubSeq(name, 1, Len(name) - 1)
    ELSE IF \E i \in DOMAIN name : name[i] = "."
         THEN BaseName(SubSeq(name, 1, Len(name) - 1))
         ELSE name

\* C9: the download is named {base}_{customerName}_extracted.json, base being
\* the uploaded file's name without its extension, for every accepted type;
\* and extracted_{customerName}.json when no file is attached.
C9_DownloadNamedByBase ==
    view.extracted =>
        view.file_name =
            IF uploaded_file.present
            THEN BaseName(uploaded_file.name) \o <<"_">> \o customer_name
                     \o ExtractedJsonSuffix
            ELSE ExtractedPrefix \o customer_name \o DotJson

\* C10: the customer name and the file name in the download's name are those
\* of the submission that produced the stored result.
C10_DownloadNamedBySubmission ==
    view.extracted =>
        view.file_name = DownloadFileName(request.file, request.customer_name)

====
